---- MODULE Spec2Model ----
\* Home Assistant platform adapters: the Xiaomi miio vacuum and switch entities
\* (components/xiaomi_miio/vacuum.py, ng_switch.py) and the OpenWRT ubus device
\* tracker (components/device_tracker/ubus.py).
\*
\* A step is what a handler does without being suspended: a synchronous
\* handler whole, a coroutine from one await to the next.  A vacuum or switch
\* command is suspended while the executor runs its device call and, for the
\* vacuum, while the coordinator refreshes; the coordinator's periodic update
\* and other commands may run meanwhile.  What the last step did is observable
\* through
\*   op     the handler that ran
\*   at     where the step left it: "job" / "refresh" (suspended at that
\*          await) or "returned"
\*   arg    its argument, in the step that begins it
\*   inp    what the environment (device SDK, router, poll) answered
\*   calls  the vendor / coordinator calls made, in order
\*   log    the records logged, in order
\*   exc    the exception that left the handler ("None" otherwise)
\*   ret    the value it returned
\*   try_result  the value its call of _try_command returned, if it did
\* The three adapters share no state (spec.md section 2), so a run exercises
\* one of them: the vacuum or the switch that was set up first, or the scanner.
\*
\* Python strings whose characters matter (hardware addresses, lease-file text,
\* fan speed names) are sequences of one-character strings.
EXTENDS Integers, Sequences, FiniteSets, Bags, TLC

VARIABLES
    vacPhase, _fan_speed_presets, _state, vacData, vacTasks,
    swPhase, swKey, _attr_is_on, swData, swTasks,
    scanner, _wlan_ifaces, lease_file, success_init,
    op, at, arg, inp, exc, ret, try_result, log, calls,
    since

vacVars == <<vacPhase, _fan_speed_presets, _state, vacData, vacTasks>>
swVars == <<swPhase, swKey, _attr_is_on, swData, swTasks>>
ubusVars == <<scanner, _wlan_ifaces, lease_file, success_init>>
vars == <<vacVars, swVars, ubusVars,
          op, at, arg, inp, exc, ret, try_result, log, calls, since>>

None == "None"
RetNone == [kind |-> "None"]
RetBool(b) == [kind |-> "bool", v |-> b]

EmptyDict == [k \in {} |-> None]

\* dict.update / dict[k] = v : the right operand wins on equal keys.
DictUpdate(d, e) ==
    [k \in (DOMAIN d) \cup (DOMAIN e) |-> IF k \in DOMAIN e THEN e[k] ELSE d[k]]

Call(f, a) == [f |-> f, args |-> a]
LogRec(level, msg) == [level |-> level, msg |-> msg]

-----------------------------------------------------------------------------
\* Characters and Python str methods

\* The characters of the model are the ASCII ones and the others this module
\* names.  A character TLA+ has no escape for is written as its Python escape,
\* the whole string standing for the one character: "\\x0b" is the vertical
\* tab, "\\xdf" the sharp s.
\*
\* The decimal digits int() reads, each with its value: the ASCII ones and, of
\* the other scripts', the Arabic-Indic and the Devanagari ones.
Digits ==
    LET Row(cs) == [c \in {cs[i] : i \in 1..10} |-> (CHOOSE i \in 1..10 : cs[i] = c) - 1]
    IN Row(<<"0", "1", "2", "3", "4", "5", "6", "7", "8", "9">>)
       @@ Row(<<"\\u0660", "\\u0661", "\\u0662", "\\u0663", "\\u0664",
                "\\u0665", "\\u0666", "\\u0667", "\\u0668", "\\u0669">>)
       @@ Row(<<"\\u0966", "\\u0967", "\\u0968", "\\u0969", "\\u096a",
                "\\u096b", "\\u096c", "\\u096d", "\\u096e", "\\u096f">>)

\* The characters int() strips from both ends: the ASCII whitespace and the
\* Unicode spaces.  The separators "\\x1c" .. "\\x1f", whitespace to
\* str.isspace(), are not among them.
Whitespace ==
    {" ", "\t", "\n", "\r", "\f", "\\x0b",
     "\\x85", "\\xa0", "\\u1680", "\\u2000", "\\u2001", "\\u2002", "\\u2003",
     "\\u2004", "\\u2005", "\\u2006", "\\u2007", "\\u2008", "\\u2009", "\\u200a",
     "\\u2028", "\\u2029", "\\u202f", "\\u205f", "\\u3000"}

RECURSIVE LStrip(_)
LStrip(s) == IF s # <<>> /\ Head(s) \in Whitespace THEN LStrip(Tail(s)) ELSE s

RECURSIVE RStrip(_)
RStrip(s) ==
    IF s # <<>> /\ s[Len(s)] \in Whitespace
    THEN RStrip(SubSeq(s, 1, Len(s) - 1)) ELSE s

RECURSIVE DigitsValue(_)
DigitsValue(s) ==
    IF s = <<>> THEN 0
    ELSE 10 * DigitsValue(SubSeq(s, 1, Len(s) - 1)) + Digits[s[Len(s)]]

\* int(str): surrounding whitespace is stripped, one optional sign, then
\* decimal digits, where single underscores may stand between two digits.
\* IntBody is the text after stripping and the sign.
IntStripped(s) == RStrip(LStrip(s))
IntSigned(s) == IntStripped(s) # <<>> /\ Head(IntStripped(s)) \in {"+", "-"}
IntBody(s) == IF IntSigned(s) THEN Tail(IntStripped(s)) ELSE IntStripped(s)

\* The digits of a body, the underscores left out.
IntDigits(b) == SelectSeq(b, LAMBDA c : c # "_")

\* int(s) raises ValueError exactly when this is FALSE.  A body int() accepts:
\* digits and underscores, a digit first and last, no two underscores in a
\* row, and no more than 4300 digits (the interpreter's default limit).
IntParses(s) ==
    LET b == IntBody(s) IN
    /\ b # <<>>
    /\ \A i \in 1..Len(b) : b[i] \in DOMAIN Digits \cup {"_"}
    /\ b[1] \in DOMAIN Digits /\ b[Len(b)] \in DOMAIN Digits
    /\ \A i \in 1..(Len(b) - 1) : ~(b[i] = "_" /\ b[i + 1] = "_")
    /\ Len(IntDigits(b)) <= 4300

IntValue(s) ==
    IF IntSigned(s) /\ Head(IntStripped(s)) = "-"
    THEN 0 - DigitsValue(IntDigits(IntBody(s))) ELSE DigitsValue(IntDigits(IntBody(s)))

-----------------------------------------------------------------------------
\* xiaomi_miio/vacuum.py : MiroboVacuum

STATE_CLEANING == "cleaning"
STATE_DOCKED == "docked"
STATE_ERROR == "error"
STATE_IDLE == "idle"
STATE_PAUSED == "paused"
STATE_RETURNING == "returning"

\* miio VacuumState members named by the adapter, and one it does not name.
VacuumState == {"Error", "Cleaning", "Idle", "Docked", "Returning", "Paused"}
PolledVacuumState == VacuumState \cup {"Unknown"}

VACUUMSTATE_TO_HASS ==
    [s \in VacuumState |->
        CASE s = "Error" -> STATE_ERROR
          [] s = "Cleaning" -> STATE_CLEANING
          [] s = "Idle" -> STATE_IDLE
          [] s = "Docked" -> STATE_DOCKED
          [] s = "Returning" -> STATE_RETURNING
          [] s = "Paused" -> STATE_PAUSED]

\* dict.get(k): the value, or None for a missing key.  It never raises KeyError.
DictGet(d, k) == IF k \in DOMAIN d THEN d[k] ELSE None
DictGetRaisesKeyError(d, k) == FALSE

\* _handle_coordinator_update: the try body assigns the looked-up value; the
\* except KeyError branch logs and assigns None.
HandledState(vacstate) ==
    IF DictGetRaisesKeyError(VACUUMSTATE_TO_HASS, vacstate)
    THEN None
    ELSE DictGet(VACUUMSTATE_TO_HASS, vacstate)

HandledLog(vacstate) ==
    IF DictGetRaisesKeyError(VACUUMSTATE_TO_HASS, vacstate)
    THEN <<LogRec("error", "Unknown state: %s")>>
    ELSE <<>>

\* The state property, without the stored-state fallback being special-cased.
stateStoredOnly == _state

\* MiroboVacuum.state
state == IF vacData.vacuum_state = "Error" THEN STATE_ERROR ELSE _state

\* device.fan_speed_presets(): an insertion-ordered dict, name -> speed, kept as
\* the sequence of its items.  Names are unique, speeds need not be.
Lo == <<"L", "o">>
Hi == <<"H", "i">>
Mx == <<"M", "x">>
N7 == <<"7">>
Custom == <<"C", "u", "s", "t", "o", "m">>

Preset(n, s) == [name |-> n, speed |-> s]

PresetTables ==
    { <<Preset(Lo, 38), Preset(Hi, 90)>>,
      <<Preset(Lo, 38), Preset(Hi, 90), Preset(Mx, 90), Preset(N7, 77)>> }

PresetNames(p) == {p[i].name : i \in 1..Len(p)}

\* self._fan_speed_presets[name]
PresetSpeed(p, n) == p[CHOOSE i \in 1..Len(p) : p[i].name = n].speed

\* {speed: name for name, speed in presets.items()}: a later item replaces an
\* earlier one with the same speed.
RECURSIVE PresetsReverse(_)
PresetsReverse(p) ==
    IF p = <<>> THEN EmptyDict
    ELSE DictUpdate(PresetsReverse(SubSeq(p, 1, Len(p) - 1)),
                    p[Len(p)].speed :> p[Len(p)].name)

_fan_speed_presets_reverse == PresetsReverse(_fan_speed_presets)

\* dict.get(k, default)
DictGetDefault(d, k, default) == IF k \in DOMAIN d THEN d[k] ELSE default

\* MiroboVacuum.fan_speed
fan_speed == DictGetDefault(_fan_speed_presets_reverse, vacData.fanspeed, Custom)

\* MiroboVacuum.fan_speed_list
fan_speed_list == [i \in 1..Len(_fan_speed_presets) |-> _fan_speed_presets[i].name]

\* What the coordinator's poll of the vacuum can deliver.
PolledFanSpeed == {90, 50}
VacDataSet == [vacuum_state : PolledVacuumState, fanspeed : PolledFanSpeed]

\* One refresh of a coordinator: fresh data, or a failed poll that keeps the old
\* data and may or may not notify the listeners.
NoPoll == [kind |-> "none"]
NoInp == [sdk |-> "none", poll |-> NoPoll]
FailedPolls == {[kind |-> "failed", notify |-> n] : n \in BOOLEAN}
VacPolls == {[kind |-> "fresh", data |-> d] : d \in VacDataSet} \cup FailedPolls

PolledData(old, poll) == IF poll.kind = "fresh" THEN poll.data ELSE old
Notifies(poll) == poll.kind = "fresh" \/ (poll.kind = "failed" /\ poll.notify)

\* The outcomes of a blocking device SDK call.
SdkOutcomes == {"ok", "DeviceException", "OSError"}

RefreshCall == Call("async_refresh", <<>>)

\* The number of commands of one entity that may be in flight together.
MaxInFlight == 2

\* A handler suspended at an await: at "job" it awaits the executor job that
\* runs its device call, at "refresh" the coordinator's async_refresh.
Task(name, position) == [name |-> name, at |-> position]
AddTask(tasks, t) == tasks (+) SetToBag({t})
DelTask(tasks, t) == tasks (-) SetToBag({t})

\* The stored state at the begin of the command a run follows: no command is
\* followed, the next command that begins is, or one is with the state `v`.
Unfollowed == [kind |-> "none"]
Armed == [kind |-> "armed"]
Follow(kind, v) == IF since = Armed THEN [kind |-> kind, v |-> v] ELSE since

\* _try_command without its except clause.
_try_command_no_except(mask_error, out) ==
    [refresh |-> out = "ok", log |-> <<>>,
     exc |-> IF out = "ok" THEN None ELSE out,
     ret |-> IF out = "ok" THEN RetBool(TRUE) ELSE RetNone]

\* _try_command with the except clause returning True.
_try_command_true_on_error(mask_error, out) ==
    [refresh |-> out = "ok",
     log |-> IF out = "DeviceException" THEN <<LogRec("error", mask_error)>> ELSE <<>>,
     exc |-> IF out \in {"ok", "DeviceException"} THEN None ELSE out,
     ret |-> IF out \in {"ok", "DeviceException"} THEN RetBool(TRUE) ELSE RetNone]

\* MiroboVacuum._try_command(mask_error, func, *args) from the point where the
\* executor job it awaits (line 251) has ended `out`: whether it goes on to
\* await the coordinator's refresh (line 252), the records it logs, the
\* exception that escapes, and the value it returns (after the refresh, when
\* it awaits one).
_try_command(mask_error, out) ==
    [refresh |-> out = "ok",
     log |-> IF out = "DeviceException" THEN <<LogRec("error", mask_error)>> ELSE <<>>,
     exc |-> IF out \in {"ok", "DeviceException"} THEN None ELSE out,
     ret |-> IF out = "ok" THEN RetBool(TRUE)
             ELSE IF out = "DeviceException" THEN RetBool(FALSE) ELSE RetNone]

\* async_clean_zone from the point where its executor job (line 380) has ended
\* `out`: OSError and DeviceException are both caught and logged.
clean_zone(out) ==
    [refresh |-> out = "ok",
     log |-> IF out \in {"OSError", "DeviceException"}
             THEN <<LogRec("error", "Unable to send zoned_clean command to the vacuum: %s")>>
             ELSE <<>>,
     exc |-> None,
     ret |-> RetNone]

\* The message and the device method each command hands to _try_command
\* (async_clean_zone calls its method itself).
MaskError(name) ==
    CASE name = "async_start" -> "Unable to start the vacuum: %s"
      [] name = "async_pause" -> "Unable to set start/pause: %s"
      [] name = "async_stop" -> "Unable to stop: %s"
      [] name = "async_set_fan_speed" -> "Unable to set fan speed: %s"
      [] name = "async_return_to_base" -> "Unable to return home: %s"
      [] name = "async_clean_spot" -> "Unable to start the vacuum for a spot clean-up: %s"
      [] name = "async_locate" -> "Unable to locate the botvac: %s"
      [] name = "async_send_command" -> "Unable to send command to the vacuum: %s"
      [] name = "async_remote_control_start" -> "Unable to start remote control the vacuum: %s"
      [] name = "async_remote_control_stop" -> "Unable to stop remote control the vacuum: %s"
      [] name = "async_remote_control_move" -> "Unable to move with remote control the vacuum: %s"
      [] name = "async_remote_control_move_step" -> "Unable to remote control the vacuum: %s"
      [] name = "async_goto" -> "Unable to send the vacuum cleaner to the specified coordinates: %s"
      [] name = "async_clean_segment" -> "Unable to start cleaning of the specified segments: %s"

DeviceFunc(name) ==
    CASE name = "async_start" -> "resume_or_start"
      [] name = "async_pause" -> "pause"
      [] name = "async_stop" -> "stop"
      [] name = "async_set_fan_speed" -> "set_fan_speed"
      [] name = "async_return_to_base" -> "home"
      [] name = "async_clean_spot" -> "spot"
      [] name = "async_locate" -> "find"
      [] name = "async_send_command" -> "raw_command"
      [] name = "async_remote_control_start" -> "manual_start"
      [] name = "async_remote_control_stop" -> "manual_stop"
      [] name = "async_remote_control_move" -> "manual_control"
      [] name = "async_remote_control_move_step" -> "manual_control_once"
      [] name = "async_goto" -> "goto"
      [] name = "async_clean_segment" -> "segment_clean"
      [] name = "async_clean_zone" -> "zoned_clean"

\* What a suspended vacuum handler does when its executor job has ended `out`.
Resumed(name, out) ==
    IF name = "async_clean_zone" THEN clean_zone(out)
    ELSE _try_command(MaskError(name), out)

\* A vacuum command up to its first await: it has logged `log0` and handed the
\* device call to the executor; the handler is suspended until the job ends.
VacCalled(name, a, args, log0) ==
    /\ vacPhase = "added"
    /\ BagCardinality(vacTasks) < MaxInFlight
    /\ vacTasks' = AddTask(vacTasks, Task(name, "job"))
    /\ since' = Follow("vacuum", _state)
    /\ op' = name
    /\ at' = "job"
    /\ arg' = a
    /\ inp' = NoInp
    /\ calls' = <<Call(DeviceFunc(name), args)>>
    /\ log' = log0
    /\ exc' = None /\ ret' = RetNone /\ try_result' = RetNone
    /\ UNCHANGED <<vacPhase, _fan_speed_presets, _state, vacData, swVars, ubusVars>>

\* A vacuum command that returns before any await, having logged `log0`.
VacReturned(name, a, log0) ==
    /\ vacPhase = "added"
    /\ op' = name
    /\ at' = "returned"
    /\ arg' = a
    /\ inp' = NoInp
    /\ calls' = <<>>
    /\ log' = log0
    /\ exc' = None /\ ret' = RetNone /\ try_result' = RetNone
    /\ UNCHANGED <<vacVars, swVars, ubusVars, since>>

\* The executor job of a suspended handler t ends `out` and the handler
\* runs on: to its return, or to the await of the coordinator's refresh.
vacuum_job_done ==
    \E t \in BagToSet(vacTasks), out \in SdkOutcomes :
    \E r \in {Resumed(t.name, out)} :
    /\ t.at = "job"
    /\ vacTasks' = IF r.refresh
                   THEN AddTask(DelTask(vacTasks, t), Task(t.name, "refresh"))
                   ELSE DelTask(vacTasks, t)
    /\ op' = t.name
    /\ at' = IF r.refresh THEN "refresh" ELSE "returned"
    /\ arg' = <<>>
    /\ inp' = [sdk |-> out, poll |-> NoPoll]
    /\ calls' = IF r.refresh THEN <<RefreshCall>> ELSE <<>>
    /\ log' = r.log
    /\ exc' = r.exc
    /\ ret' = RetNone
    /\ try_result' = IF r.refresh THEN RetNone ELSE r.ret
    /\ UNCHANGED <<vacPhase, _fan_speed_presets, _state, vacData, swVars, ubusVars, since>>

\* The refresh a suspended handler t awaits ends: it has polled the device
\* and, on fresh data or a notified failure, run _handle_coordinator_update;
\* the handler returns.
vacuum_refresh_done ==
    \E t \in BagToSet(vacTasks), poll \in VacPolls :
    /\ t.at = "refresh"
    /\ vacTasks' = DelTask(vacTasks, t)
    /\ vacData' = PolledData(vacData, poll)
    /\ _state' = IF Notifies(poll)
                 THEN HandledState(PolledData(vacData, poll).vacuum_state)
                 ELSE _state
    /\ log' = IF Notifies(poll)
              THEN HandledLog(PolledData(vacData, poll).vacuum_state)
              ELSE <<>>
    /\ op' = t.name
    /\ at' = "returned"
    /\ arg' = <<>>
    /\ inp' = [sdk |-> "ok", poll |-> poll]
    /\ calls' = <<>>
    /\ exc' = None
    /\ ret' = RetNone
    /\ try_result' = Resumed(t.name, "ok").ret
    /\ UNCHANGED <<vacPhase, _fan_speed_presets, swVars, ubusVars, since>>

\* A handler that is one call of _try_command.
VacTry(name, a, args) == VacCalled(name, a, args, <<>>)

async_start == VacTry("async_start", <<>>, <<>>)

async_pause == VacTry("async_pause", <<>>, <<>>)

async_stop == VacTry("async_stop", <<>>, <<>>)

async_return_to_base == VacTry("async_return_to_base", <<>>, <<>>)

async_clean_spot == VacTry("async_clean_spot", <<>>, <<>>)

async_locate == VacTry("async_locate", <<>>, <<>>)

\* The arguments of the next handlers are passed to the device unchanged; they
\* are named, not enumerated.
async_send_command ==
    VacTry("async_send_command", <<"command", "params">>, <<"command", "params">>)

async_remote_control_start == VacTry("async_remote_control_start", <<>>, <<>>)

async_remote_control_stop == VacTry("async_remote_control_stop", <<>>, <<>>)

async_remote_control_move ==
    VacTry("async_remote_control_move", <<"rotation", "velocity", "duration">>,
           <<"velocity", "rotation", "duration">>)

async_remote_control_move_step ==
    VacTry("async_remote_control_move_step", <<"rotation", "velocity", "duration">>,
           <<"velocity", "rotation", "duration">>)

async_goto == VacTry("async_goto", <<"x_coord", "y_coord">>, <<"x_coord", "y_coord">>)

\* segments: an int or a list of ints; an int is wrapped in a list.
SegmentInputs ==
    {[int |-> TRUE, n |-> 16, list |-> <<>>], [int |-> FALSE, n |-> 0, list |-> <<16, 17>>]}
SegmentList(segments) == IF segments.int THEN <<segments.n>> ELSE segments.list

async_clean_segment ==
    \E segments \in SegmentInputs :
        VacTry("async_clean_segment", segments, <<SegmentList(segments)>>)

\* The fan_speed argument: the service schema makes it a string.
FanSpeedInputs ==
    { Lo, Mx, N7, <<"3", "8">>, <<"-", "5">>, <<" ", "6", "0", "\r">>,
      <<"\f", "+", "7", "\n">>, <<"1", "_", "0">>, <<"1", "_", "_", "0">>,
      <<"\\u0661", "\\u0662">>, <<"\\x1c", "7">>, <<"6", "x">>, <<"-">>, <<>> }

\* async_set_fan_speed: whether fan_speed yields an integer, and which.
FanSpeedRecognized(presets, fs) == fs \in PresetNames(presets) \/ IntParses(fs)

\* The lookup with the integer reading tried before the preset table.
FanSpeedIntParsedFirst(presets, fs) ==
    IF IntParses(fs) THEN IntValue(fs) ELSE PresetSpeed(presets, fs)

FanSpeedInt(presets, fs) ==
    IF fs \in PresetNames(presets) THEN PresetSpeed(presets, fs) ELSE IntValue(fs)

FanSpeedErrorLog ==
    <<LogRec("error", "Fan speed step not recognized (%s). Valid speeds are: %s")>>

async_set_fan_speed ==
    \E fs \in FanSpeedInputs :
        IF FanSpeedRecognized(_fan_speed_presets, fs)
        THEN VacTry("async_set_fan_speed", fs, <<FanSpeedInt(_fan_speed_presets, fs)>>)
        ELSE VacReturned("async_set_fan_speed", fs, FanSpeedErrorLog)

\* async_clean_zone: repeats is appended to every zone and the list is logged,
\* then the device is called outside _try_command.
ZoneInputs == {<<>>, <<<<0, 0, 5, 5>>>>, <<<<0, 0, 5, 5>>, <<1, 1, 2, 2>>>>}

ZoneWithRepeats(zone, repeats) == [i \in 1..Len(zone) |-> Append(zone[i], repeats)]

async_clean_zone ==
    \E zone \in ZoneInputs, repeats \in {1, 3} :
        VacCalled("async_clean_zone", <<zone, repeats>>,
                  <<ZoneWithRepeats(zone, repeats)>>,
                  <<LogRec("debug", "Zone with repeats: %s")>>)

\* async_setup_entry: for a device config entry the entity is constructed
\* (__init__: presets read from the device, _state = None) and the entity
\* services are registered; for any other flow type no entity is made.
async_setup_entry ==
    /\ vacPhase = "none" /\ swPhase = "none" /\ scanner = "none"
    /\ \E flow \in {"device", "gateway"}, presets \in PresetTables, d \in VacDataSet :
         /\ IF flow = "device"
            THEN /\ vacPhase' = "constructed"
                 /\ _fan_speed_presets' = presets
                 /\ _state' = None
                 /\ vacData' = d
                 /\ UNCHANGED vacTasks
                 /\ inp' = [sdk |-> "none", poll |-> NoPoll, presets |-> presets, data |-> d]
            ELSE /\ UNCHANGED vacVars
                 /\ inp' = NoInp
         /\ arg' = flow
    /\ op' = "async_setup_entry" /\ at' = "returned"
    /\ exc' = None /\ ret' = RetNone /\ try_result' = RetNone
    /\ log' = <<>> /\ calls' = <<>>
    /\ UNCHANGED <<swVars, ubusVars, since>>

\* MiroboVacuum.async_added_to_hass: the entity starts listening to the
\* coordinator and handles the data the coordinator holds.
async_added_to_hass ==
    /\ vacPhase = "constructed"
    /\ vacPhase' = "added"
    /\ _state' = HandledState(vacData.vacuum_state)
    /\ log' = HandledLog(vacData.vacuum_state)
    /\ op' = "async_added_to_hass" /\ at' = "returned"
    /\ arg' = <<>> /\ inp' = NoInp
    /\ exc' = None /\ ret' = RetNone /\ try_result' = RetNone /\ calls' = <<>>
    /\ UNCHANGED <<_fan_speed_presets, vacData, vacTasks, swVars, ubusVars, since>>

\* The coordinator's periodic refresh of the vacuum, at any point between two
\* steps: the entity's _handle_coordinator_update runs once it listens.
vacuum_coordinator_refresh ==
    /\ vacPhase \in {"constructed", "added"}
    /\ \E poll \in VacPolls :
         /\ vacData' = PolledData(vacData, poll)
         /\ _state' = IF Notifies(poll) /\ vacPhase = "added"
                      THEN HandledState(PolledData(vacData, poll).vacuum_state)
                      ELSE _state
         /\ log' = IF Notifies(poll) /\ vacPhase = "added"
                   THEN HandledLog(PolledData(vacData, poll).vacuum_state)
                   ELSE <<>>
         /\ inp' = [sdk |-> "none", poll |-> poll]
    /\ op' = "vacuum_coordinator_refresh" /\ at' = "returned"
    /\ arg' = <<>>
    /\ exc' = None /\ ret' = RetNone /\ try_result' = RetNone /\ calls' = <<>>
    /\ UNCHANGED <<vacPhase, _fan_speed_presets, vacTasks, swVars, ubusVars, since>>

\* The commands of the vacuum entity.
VacuumCommands ==
    \/ async_start
    \/ async_pause
    \/ async_stop
    \/ async_set_fan_speed
    \/ async_return_to_base
    \/ async_clean_spot
    \/ async_locate
    \/ async_send_command
    \/ async_remote_control_start
    \/ async_remote_control_stop
    \/ async_remote_control_move
    \/ async_remote_control_move_step
    \/ async_goto
    \/ async_clean_segment
    \/ async_clean_zone

VacuumNext ==
    \/ async_setup_entry
    \/ async_added_to_hass
    \/ vacuum_coordinator_refresh
    \/ VacuumCommands
    \/ vacuum_job_done
    \/ vacuum_refresh_done

-----------------------------------------------------------------------------
\* xiaomi_miio/ng_switch.py : XiaomiSwitch

\* The polled status object of the switch's device: one attribute per switch.
SwitchKeys == {"power", "led"}
SwDataSet == [SwitchKeys -> BOOLEAN]
SwPolls == {[kind |-> "fresh", data |-> d] : d \in SwDataSet} \cup FailedPolls

\* XiaomiCoordinatedMiioEntity._extract_value_from_attribute(state, attribute)
_extract_value_from_attribute(data, key) == data[key]

\* XiaomiSwitch.__init__ / _handle_coordinator_update: the new _attr_is_on.
SwitchHandled(data, key) == _extract_value_from_attribute(data, key)

\* XiaomiCoordinatedMiioEntity._try_command from the point where the executor
\* job it awaits has ended `out`: True on success, a logged error and False on
\* DeviceException; no refresh.
switch_try_command(mask_error, out) ==
    [log |-> IF out = "DeviceException" THEN <<LogRec("error", mask_error)>> ELSE <<>>,
     exc |-> IF out \in {"ok", "DeviceException"} THEN None ELSE out,
     ret |-> IF out = "ok" THEN RetBool(TRUE)
             ELSE IF out = "DeviceException" THEN RetBool(FALSE) ELSE RetNone]

\* The write-back written whatever _try_command returned.
SwitchWrittenAlways(is_on, tried, value) == value

\* async_turn_on / async_turn_off: `if await self._try_command(...)` guards the
\* write-back of `value`.
SwitchWritten(is_on, tried, value) ==
    IF tried.kind = "bool" /\ tried.v THEN value ELSE is_on

\* The value each switch command writes back.
SwitchValue(name) == name = "async_turn_on"

\* A switch command up to its await: the setter call is with the executor.
SwitchCommand(name) ==
    /\ swPhase = "added"
    /\ BagCardinality(swTasks) < MaxInFlight
    /\ swTasks' = AddTask(swTasks, Task(name, "job"))
    /\ since' = Follow("switch", _attr_is_on)
    /\ op' = name
    /\ at' = "job"
    /\ arg' = <<>>
    /\ inp' = NoInp
    /\ calls' = <<Call("_setter", <<SwitchValue(name)>>)>>
    /\ log' = <<>>
    /\ exc' = None /\ ret' = RetNone /\ try_result' = RetNone
    /\ UNCHANGED <<swPhase, swKey, _attr_is_on, swData, vacVars, ubusVars>>

async_turn_on == SwitchCommand("async_turn_on")

async_turn_off == SwitchCommand("async_turn_off")

\* The executor job of a suspended switch command t ends `out`: _try_command
\* returns and the command writes its value back if that returned True.
switch_job_done ==
    \E t \in BagToSet(swTasks), out \in SdkOutcomes :
    \E r \in {switch_try_command(IF t.name = "async_turn_on"
                                THEN "Turning %s on failed"
                                ELSE "Turning off failed", out)} :
    /\ swTasks' = DelTask(swTasks, t)
    /\ _attr_is_on' = SwitchWritten(_attr_is_on, r.ret, SwitchValue(t.name))
    /\ op' = t.name
    /\ at' = "returned"
    /\ arg' = <<>>
    /\ inp' = [sdk |-> out, poll |-> NoPoll]
    /\ calls' = <<>>
    /\ log' = r.log
    /\ exc' = r.exc
    /\ ret' = RetNone
    /\ try_result' = r.ret
    /\ UNCHANGED <<swPhase, swKey, swData, vacVars, ubusVars, since>>

\* XiaomiSwitch.__init__
XiaomiSwitch_init ==
    /\ vacPhase = "none" /\ swPhase = "none" /\ scanner = "none"
    /\ \E key \in SwitchKeys, d \in SwDataSet :
         /\ swPhase' = "constructed"
         /\ swKey' = key
         /\ UNCHANGED swTasks
         /\ swData' = d
         /\ _attr_is_on' = SwitchHandled(d, key)
         /\ inp' = [sdk |-> "none", poll |-> NoPoll, key |-> key, data |-> d]
    /\ op' = "XiaomiSwitch.__init__" /\ at' = "returned"
    /\ arg' = <<>>
    /\ exc' = None /\ ret' = RetNone /\ try_result' = RetNone
    /\ log' = <<>> /\ calls' = <<>>
    /\ UNCHANGED <<vacVars, ubusVars, since>>

\* The switch entity is added and starts listening to its coordinator.
switch_added_to_hass ==
    /\ swPhase = "constructed"
    /\ swPhase' = "added"
    /\ op' = "switch_added_to_hass" /\ at' = "returned"
    /\ arg' = <<>> /\ inp' = NoInp
    /\ exc' = None /\ ret' = RetNone /\ try_result' = RetNone
    /\ log' = <<>> /\ calls' = <<>>
    /\ UNCHANGED <<swKey, _attr_is_on, swData, swTasks, vacVars, ubusVars, since>>

\* The coordinator's periodic refresh of the switch's device.
switch_coordinator_refresh ==
    /\ swPhase \in {"constructed", "added"}
    /\ \E poll \in SwPolls :
         /\ swData' = PolledData(swData, poll)
         /\ _attr_is_on' = IF Notifies(poll) /\ swPhase = "added"
                           THEN SwitchHandled(PolledData(swData, poll), swKey)
                           ELSE _attr_is_on
         /\ inp' = [sdk |-> "none", poll |-> poll]
    /\ op' = "switch_coordinator_refresh" /\ at' = "returned"
    /\ arg' = <<>>
    /\ exc' = None /\ ret' = RetNone /\ try_result' = RetNone
    /\ log' = <<>> /\ calls' = <<>>
    /\ UNCHANGED <<swPhase, swKey, swTasks, vacVars, ubusVars, since>>

SwitchCommands ==
    \/ async_turn_on
    \/ async_turn_off

SwitchNext ==
    \/ XiaomiSwitch_init
    \/ switch_added_to_hass
    \/ switch_coordinator_refresh
    \/ SwitchCommands
    \/ switch_job_done

-----------------------------------------------------------------------------
\* Python str.split(sep), str.splitlines(), str.upper() on character sequences

\* s.split(c) for a one-character separator: every occurrence of c ends a
\* field, so adjacent separators give empty fields.
RECURSIVE SplitOn(_, _)
SplitOn(s, c) ==
    IF s = <<>> THEN << <<>> >>
    ELSE LET rest == SplitOn(Tail(s), c) IN
         IF Head(s) = c THEN << <<>> >> \o rest
         ELSE << <<Head(s)>> \o Head(rest) >> \o Tail(rest)

\* s.splitlines(): a line ends at a line boundary, "\r\n" counting as one; a
\* final boundary adds no empty line.
RECURSIVE SplitLinesFrom(_, _)
SplitLinesFrom(s, cur) ==
    IF s = <<>> THEN (IF cur = <<>> THEN <<>> ELSE <<cur>>)
    ELSE IF Len(s) >= 2 /\ s[1] = "\r" /\ s[2] = "\n"
    THEN <<cur>> \o SplitLinesFrom(Tail(Tail(s)), <<>>)
    ELSE IF Head(s) \in {"\n", "\r", "\f", "\\x0b", "\\x1c", "\\x1d", "\\x1e",
                          "\\x85", "\\u2028", "\\u2029"}
    THEN <<cur>> \o SplitLinesFrom(Tail(s), <<>>)
    ELSE SplitLinesFrom(Tail(s), Append(cur, Head(s)))

SplitLines(s) == SplitLinesFrom(s, <<>>)

LowerAlpha == <<"a", "b", "c", "d", "e", "f", "g", "h", "i", "j", "k", "l", "m",
                "n", "o", "p", "q", "r", "s", "t", "u", "v", "w", "x", "y", "z">>
UpperAlpha == <<"A", "B", "C", "D", "E", "F", "G", "H", "I", "J", "K", "L", "M",
                "N", "O", "P", "Q", "R", "S", "T", "U", "V", "W", "X", "Y", "Z">>

\* c.upper(): the characters a cased letter becomes (the sharp s becomes two),
\* the character itself when it is no lower-case letter.  Of the letters
\* beyond ASCII the model has e acute ("\\xe9"), the sharp s ("\\xdf") and the
\* digraph dz with caron ("\\u01c6").
UpperChar(c) ==
    IF \E i \in 1..Len(LowerAlpha) : LowerAlpha[i] = c
    THEN <<UpperAlpha[CHOOSE i \in 1..Len(LowerAlpha) : LowerAlpha[i] = c]>>
    ELSE CASE c = "\\xe9" -> <<"\\xc9">>
           [] c = "\\xdf" -> <<"S", "S">>
           [] c = "\\u01c6" -> <<"\\u01c4">>
           [] OTHER -> <<c>>

\* s.upper()
Upper(s) ==
    LET up[i \in 0..Len(s)] == IF i = 0 THEN <<>> ELSE up[i - 1] \o UpperChar(s[i])
    IN up[Len(s)]

\* sep.join(fields)
RECURSIVE Join(_, _)
Join(fields, sep) ==
    IF fields = <<>> THEN <<>>
    ELSE IF Len(fields) = 1 THEN fields[1]
    ELSE fields[1] \o sep \o Join(Tail(fields), sep)

-----------------------------------------------------------------------------
\* device_tracker/ubus.py : UbusDeviceScanner

\* What a ubus call answers: a value, or UbusException.
Ok(v) == [ok |-> TRUE, v |-> v]
Raise == [ok |-> FALSE, e |-> "UbusException"]


\* Hardware addresses as the router reports them.
Mac_aa == <<"a", "a">>
Mac_AA == <<"A", "A">>

\* _get_network_interfaces: the list the router answers, or [] with an error
\* logged when entering the session or the call raises UbusException.
_get_network_interfaces(a) ==
    IF ~a.enter.ok
    THEN [ret |-> <<>>, calls |-> <<Call("login", <<>>)>>,
          log |-> <<LogRec("error", "Unable to read network interfaces from ubus,check your configuration: %s")>>]
    ELSE IF ~a.devices.ok
    THEN [ret |-> <<>>,
          calls |-> <<Call("login", <<>>), Call("iwinfo.devices", <<>>)>>,
          log |-> <<LogRec("error", "Unable to read network interfaces from ubus,check your configuration: %s")>>]
    ELSE [ret |-> a.devices.v,
          calls |-> <<Call("login", <<>>), Call("iwinfo.devices", <<>>)>>,
          log |-> <<>>]

\* UbusDeviceScanner.__init__ under get_scanner.  Line 65 reads the global name
\* CONF_LEASEFILE.  The names the module binds (lines 7-51) do not hold it
\* (line 24 binds CONF_LEASE_FILE) and it is no builtin, so the read raises
\* NameError on every call and lines 67-70 are never run.  The session check
\* of line 70 is outside every try block.
UbusInit(cfg_lease_file, a) ==
    LET globals == {"logging", "attr", "pf", "Dict", "List", "vol", "cv",
                    "DOMAIN", "PLATFORM_SCHEMA", "DeviceScanner", "CONF_HOST",
                    "CONF_PASSWORD", "CONF_USERNAME", "_LOGGER", "CONF_LEASE_FILE",
                    "Lease", "get_scanner", "UbusDeviceScanner"} IN
    IF "CONF_LEASEFILE" \notin globals
    THEN [exc |-> "NameError", ready |-> FALSE, ifaces |-> <<>>,
          lease_file |-> None, success_init |-> FALSE, log |-> <<>>, calls |-> <<>>]
    ELSE LET ni == _get_network_interfaces(a) IN
         IF ~a.session.ok
         THEN [exc |-> "UbusException", ready |-> FALSE, ifaces |-> <<>>,
               lease_file |-> None, success_init |-> FALSE, log |-> ni.log,
               calls |-> ni.calls \o <<Call("is_valid_session", <<>>)>>]
         ELSE [exc |-> None, ready |-> a.session.v,
               ifaces |-> IF a.session.v THEN ni.ret ELSE <<>>,
               lease_file |-> IF a.session.v THEN cfg_lease_file ELSE None,
               success_init |-> a.session.v, log |-> ni.log,
               calls |-> ni.calls \o <<Call("is_valid_session", <<>>)>>]

\* ---- the bodies of the scanner's methods ----
\* Functions of the instance's fields and of the router's answers.  As written
\* no instance leaves get_scanner, so no run applies those that read a field
\* (_get_connected_devices, _get_leases, get_device_name).

\* _get_connected_devices line 87: clients = {}
NewClients == EmptyDict

\* {x["mac"]: x for x in clients_for_iface}
RECURSIVE ClientsByMac(_)
ClientsByMac(list) ==
    IF list = <<>> THEN EmptyDict
    ELSE DictUpdate(ClientsByMac(SubSeq(list, 1, Len(list) - 1)),
                    list[Len(list)].mac :> list[Len(list)])

\* The loop over self._wlan_ifaces inside the try block: it stops at the first
\* assoclist call that raises, with `clients` as updated so far.
RECURSIVE AssocFold(_, _, _, _)
AssocFold(ifaces, assoc, clients, cs) ==
    IF ifaces = <<>> THEN [clients |-> clients, exc |-> None, calls |-> cs]
    ELSE LET c == cs \o <<Call("iwinfo.assoclist", <<Head(ifaces)>>)>> IN
         IF ~assoc[Head(ifaces)].ok
         THEN [clients |-> clients, exc |-> "UbusException", calls |-> c]
         ELSE AssocFold(Tail(ifaces), assoc,
                        DictUpdate(clients, ClientsByMac(assoc[Head(ifaces)].v)), c)

\* _get_connected_devices: `clients` is returned after the except clause, with
\* whatever the loop had put in it.
_get_connected_devices(ifaces, a) ==
    IF ~a.enter.ok
    THEN [ret |-> NewClients, calls |-> <<Call("login", <<>>)>>,
          log |-> <<LogRec("error", "Unable to read connected devices: %s")>>]
    ELSE LET f == AssocFold(ifaces, a.assoc, NewClients, <<Call("login", <<>>)>>) IN
         [ret |-> f.clients, calls |-> f.calls,
          log |-> IF f.exc = None
                  THEN <<LogRec("debug", "Total %s connected devices: %s")>>
                  ELSE <<LogRec("error", "Unable to read connected devices: %s")>>]

\* Lease(*fields): the attrs class takes exactly five positional arguments.
LeaseArity == 5
Lease(f) ==
    [lease |-> TRUE, expires |-> f[1], mac |-> f[2], ip |-> f[3],
     hostname |-> f[4], client_id |-> f[5]]

\* lease_line.split(" ")
LeaseFields(lease_line) == SplitOn(lease_line, " ")

\* _get_dnsmasq_leases on the text read: a line that does not give five fields
\* makes Lease(...) raise TypeError.
RECURSIVE DnsmasqFold(_, _)
DnsmasqFold(lines, leases) ==
    IF lines = <<>> THEN [leases |-> leases, exc |-> None]
    ELSE LET f == LeaseFields(Head(lines)) IN
         IF Len(f) # LeaseArity
         THEN [leases |-> leases, exc |-> "TypeError"]
         ELSE DnsmasqFold(Tail(lines), DictUpdate(leases, Upper(f[2]) :> Lease(f)))

_get_dnsmasq_leases(text) == DnsmasqFold(SplitLines(text), EmptyDict)

\* The loops of _get_odhcpd_leases over one lease method's answer: the inner
\* loop target is named `leases` too, so each (iface, leases) item rebinds the
\* local that is returned.
RECURSIVE OdhcpdDev(_, _)
OdhcpdDev(items, leases) ==
    IF items = <<>> THEN leases ELSE OdhcpdDev(Tail(items), Head(items).leases)

RECURSIVE OdhcpdDevs(_, _)
OdhcpdDevs(devs, leases) ==
    IF devs = <<>> THEN leases
    ELSE OdhcpdDevs(Tail(devs), OdhcpdDev(Head(devs), leases))

\* The warnings of the loops over one lease method's answer: one for every
\* device, followed by one for every lease of every list of its (iface,
\* leases) items.
RECURSIVE OdhcpdWarnings(_)
OdhcpdWarnings(devs) ==
    IF devs = <<>> THEN <<>>
    ELSE LET dev == Head(devs)
             lists == UNION {{<<i, k>> : k \in DOMAIN dev[i].leases} : i \in 1..Len(dev)}
             n[S \in SUBSET lists] ==
                 IF S = {} THEN 0
                 ELSE LET p == CHOOSE p \in S : TRUE
                      IN Len(dev[p[1]].leases[p[2]].raw) + n[S \ {p}]
         IN <<LogRec("warning", "RAW lease: %s")>>
            \o [j \in 1..n[lists] |-> LogRec("warning", "odhcpd lease: %s")]
            \o OdhcpdWarnings(Tail(devs))

_get_odhcpd_leases(dhcp) ==
    LET w0 == <<LogRec("warning", "odhcpd not supported, please report the lines below")>>
        c4 == <<Call("dhcp.ipv4leases", <<>>)>>
        c6 == c4 \o <<Call("dhcp.ipv6leases", <<>>)>>
    IN
    IF ~dhcp.v4.ok THEN [ret |-> EmptyDict, exc |-> "UbusException", log |-> w0, calls |-> c4]
    ELSE IF ~dhcp.v6.ok
    THEN [ret |-> EmptyDict, exc |-> "UbusException",
          log |-> w0 \o OdhcpdWarnings(dhcp.v4.v), calls |-> c6]
    ELSE [ret |-> OdhcpdDevs(dhcp.v6.v, OdhcpdDevs(dhcp.v4.v, EmptyDict)),
          exc |-> None,
          log |-> w0 \o OdhcpdWarnings(dhcp.v4.v) \o OdhcpdWarnings(dhcp.v6.v),
          calls |-> c6]

\* The loop over lease_files: a read that raises UbusException ends it with the
\* leases merged so far; a TypeError from the parse leaves through every frame.
RECURSIVE LeaseFilesFold(_, _, _, _)
LeaseFilesFold(files, reads, leases, cs) ==
    IF files = <<>> THEN [leases |-> leases, exc |-> None, calls |-> cs]
    ELSE LET c == cs \o <<Call("file.read", <<Head(files)>>)>> IN
         IF ~reads[Head(files)].ok
         THEN [leases |-> leases, exc |-> "UbusException", calls |-> c]
         ELSE LET d == _get_dnsmasq_leases(reads[Head(files)].v) IN
              IF d.exc # None
              THEN [leases |-> leases, exc |-> d.exc, calls |-> c]
              ELSE LeaseFilesFold(Tail(files), reads, DictUpdate(leases, d.leases), c)

\* _get_leases line 132: leases = {}
NewLeases == EmptyDict

LeasesError == <<LogRec("error", "Unable to read leases from ubus: %s")>>

\* _get_leases: the dict is returned after the except clause, with whatever
\* had been merged into it.
_get_leases(cfg_lease_file, a) ==
    IF ~a.enter.ok
    THEN [ret |-> NewLeases, exc |-> None, log |-> LeasesError,
          calls |-> <<Call("login", <<>>)>>]
    ELSE
    LET od == IF a.dhcp.present THEN _get_odhcpd_leases(a.dhcp)
              ELSE [ret |-> EmptyDict, exc |-> None, log |-> <<>>, calls |-> <<>>]
        c1 == <<Call("login", <<>>)>> \o od.calls
        l1 == od.log \o (IF a.dhcp.present /\ od.exc = None
                         THEN <<LogRec("warning", "Report the lease format as shown above")>>
                         ELSE <<>>)
        leases1 == DictUpdate(NewLeases, od.ret)
    IN
    IF od.exc # None
    THEN [ret |-> NewLeases, exc |-> None, log |-> l1 \o LeasesError, calls |-> c1]
    ELSE IF cfg_lease_file = None /\ ~a.files.ok
    THEN [ret |-> leases1, exc |-> None, log |-> l1 \o LeasesError,
          calls |-> c1 \o <<Call("uci.get", <<>>)>>]
    ELSE
    LET lease_files == IF cfg_lease_file = None THEN a.files.v ELSE <<cfg_lease_file>>
        c2 == c1 \o (IF cfg_lease_file = None THEN <<Call("uci.get", <<>>)>> ELSE <<>>)
        f == LeaseFilesFold(lease_files, a.reads, leases1, c2)
    IN
    IF f.exc = "UbusException"
    THEN [ret |-> f.leases, exc |-> None, log |-> l1 \o LeasesError, calls |-> f.calls]
    ELSE IF f.exc # None
    THEN [ret |-> EmptyDict, exc |-> f.exc, log |-> l1, calls |-> f.calls]
    ELSE [ret |-> f.leases, exc |-> None,
          log |-> l1 \o <<LogRec("debug", "Found %s leases: %s")>>, calls |-> f.calls]

\* get_device_name: the hostname of leases[mac], None when mac is no key; a
\* value that is no Lease has no hostname attribute.
DeviceName(leases, mac) ==
    IF mac \notin DOMAIN leases THEN [exc |-> None, ret |-> RetNone]
    ELSE IF ~leases[mac].lease THEN [exc |-> "AttributeError", ret |-> RetNone]
    ELSE [exc |-> None, ret |-> [kind |-> "str", v |-> leases[mac].hostname]]

\* ---- what the router can answer ----

IfaceLists == {<<>>, <<"wlan0">>, <<"wlan0", "wlan1">>}

\* What the router would answer during the scanner's construction: the
\* session, the wireless devices and the session check.
InitAnswers ==
    {[enter |-> Raise, devices |-> Raise, session |-> x] :
            x \in {Ok(TRUE), Ok(FALSE), Raise}}
    \cup {[enter |-> Ok("session"), devices |-> d, session |-> x] :
            d \in {Ok(l) : l \in IfaceLists} \cup {Raise},
            x \in {Ok(TRUE), Ok(FALSE), Raise}}

LeasePath1 == "/tmp/dhcp.leases"
LeasePath2 == "/tmp/dhcp.guest.leases"
LeaseFileConfigs == {None, LeasePath1}

\* Lease-file lines: expiry, hardware address, IP address, hostname, client id.
Host_h == <<"h">>
LeaseLineFields(mac, host) == << <<"9">>, mac, <<"1">>, host, <<"*">> >>

Line_aa == Join(LeaseLineFields(Mac_aa, Host_h), <<" ">>)
Line_four == Join(SubSeq(LeaseLineFields(Mac_aa, Host_h), 1, 4), <<" ">>)

\* Beside these: other addresses (one with a sharp s) and hostnames, fields
\* parted by two spaces or by a tab, and a line of six fields.
LeaseLines ==
    { Line_aa, Line_four,
      Join(LeaseLineFields(Mac_AA, <<"g">>), <<" ">>),
      Join(LeaseLineFields(<<"b", "b">>, <<"k">>), <<" ">>),
      Join(LeaseLineFields(<<"a", "\\xdf">>, Host_h), <<" ">>),
      Join(LeaseLineFields(Mac_aa, Host_h), <<" ", " ">>),
      Join(LeaseLineFields(Mac_aa, Host_h), <<"\t">>),
      Join(LeaseLineFields(Mac_aa, Host_h) \o << <<"x">> >>, <<" ">>) }

\* A lease file's text: every line ends with a line break.
RECURSIVE Text(_)
Text(lines) == IF lines = <<>> THEN <<>> ELSE Head(lines) \o <<"\n">> \o Text(Tail(lines))

\* The most lines a lease file holds.
MaxLines == 2

TextsOfLen(lines, n) == {Text(ls) : ls \in [1..n -> lines]}

\* ---- the scanner's operations ----

get_scanner ==
    /\ vacPhase = "none" /\ swPhase = "none" /\ scanner = "none"
    /\ \E cfg \in LeaseFileConfigs, a \in InitAnswers :
         LET r == UbusInit(cfg, a) IN
         /\ scanner' = IF r.exc = None /\ r.ready THEN "ready" ELSE "none"
         /\ _wlan_ifaces' = r.ifaces
         /\ lease_file' = r.lease_file
         /\ success_init' = r.success_init
         /\ arg' = cfg
         /\ inp' = a
         /\ exc' = r.exc
         /\ ret' = [kind |-> IF r.exc = None /\ r.ready THEN "scanner" ELSE "None"]
         /\ log' = r.log
         /\ calls' = r.calls
    /\ op' = "get_scanner" /\ at' = "returned"
    /\ try_result' = RetNone
    /\ UNCHANGED <<vacVars, swVars, since>>

\* _get_dnsmasq_leases(self, ubus, lease_file) reads no field of the instance:
\* it is applied to a path and to the router's answer to the read of that
\* path, the text of the file or UbusException, which leaves it.
get_dnsmasq_leases ==
    /\ op = "none"
    /\ \E r \in {IF inp.ok THEN _get_dnsmasq_leases(inp.v)
                  ELSE [leases |-> EmptyDict, exc |-> "UbusException"]} :
         /\ exc' = r.exc
         /\ ret' = IF r.exc = None THEN [kind |-> "dict", leases |-> r.leases]
                   ELSE RetNone
    /\ op' = "_get_dnsmasq_leases" /\ at' = "returned"
    /\ calls' = <<Call("file.read", <<arg>>)>>
    /\ log' = <<>>
    /\ try_result' = RetNone
    /\ UNCHANGED <<vacVars, swVars, ubusVars, since, arg, inp>>

-----------------------------------------------------------------------------
\* Nothing is set up: no vacuum, no switch, no scanner.
NoVacuum ==
    /\ vacPhase = "none" /\ _fan_speed_presets = <<>> /\ _state = None
    /\ vacData = [vacuum_state |-> "Unknown", fanspeed |-> 0]
    /\ vacTasks = EmptyBag

NoSwitch ==
    /\ swPhase = "none" /\ swKey = None /\ _attr_is_on = FALSE
    /\ swData = [k \in SwitchKeys |-> FALSE]
    /\ swTasks = EmptyBag

NoScanner ==
    /\ scanner = "none" /\ _wlan_ifaces = <<>> /\ lease_file = None
    /\ success_init = FALSE

Init ==
    /\ NoVacuum /\ NoSwitch /\ NoScanner
    /\ since = Unfollowed
    /\ op = "none" /\ at = "returned" /\ arg = <<>> /\ inp = NoInp /\ exc = None
    /\ ret = RetNone /\ try_result = RetNone /\ log = <<>> /\ calls = <<>>

\* get_scanner hands no instance out (UbusInit), so no run enters scan_devices
\* or get_device_name.
Next == VacuumNext \/ SwitchNext \/ get_scanner

Spec == Init /\ [][Next]_vars

\* The arguments of one call of _get_dnsmasq_leases: a lease file's path,
\* and the router's answer to its read, a text of at most MaxLines lines of
\* LeaseLines or UbusException.  No scanner exists.
LeasesInit ==
    /\ NoVacuum /\ NoSwitch /\ NoScanner
    /\ since = Unfollowed
    /\ arg \in {LeasePath1, LeasePath2}
    /\ inp \in {Raise} \cup UNION {{Ok(t) : t \in TextsOfLen(LeaseLines, k)} : k \in 0..MaxLines}
    /\ op = "none" /\ at = "returned" /\ exc = None
    /\ ret = RetNone /\ try_result = RetNone /\ log = <<>> /\ calls = <<>>

LeasesNext == get_dnsmasq_leases

SpecLeases == LeasesInit /\ [][LeasesNext]_vars

\* An added vacuum or switch entity holding any polled data, whose next
\* command the run follows from its begin to its return (`since` keeps the
\* stored state the command began with) while the coordinator goes on polling.
CommandInit ==
    /\ NoScanner
    /\ since = Armed
    /\ \/ /\ NoSwitch
          /\ vacPhase = "added" /\ vacTasks = EmptyBag
          /\ _fan_speed_presets \in PresetTables
          /\ vacData \in VacDataSet
          /\ _state = HandledState(vacData.vacuum_state)
          /\ op = "async_added_to_hass"
          /\ log = HandledLog(vacData.vacuum_state)
       \/ /\ NoVacuum
          /\ swPhase = "added" /\ swTasks = EmptyBag
          /\ swKey \in SwitchKeys
          /\ swData \in SwDataSet
          /\ _attr_is_on = SwitchHandled(swData, swKey)
          /\ op = "switch_added_to_hass"
          /\ log = <<>>
    /\ at = "returned" /\ arg = <<>> /\ inp = NoInp /\ exc = None
    /\ ret = RetNone /\ try_result = RetNone /\ calls = <<>>

CommandNext ==
    \/ since = Armed /\ (VacuumCommands \/ SwitchCommands)
    \/ vacuum_coordinator_refresh
    \/ vacuum_job_done
    \/ vacuum_refresh_done
    \/ switch_coordinator_refresh
    \/ switch_job_done

SpecCommand == CommandInit /\ [][CommandNext]_vars

-----------------------------------------------------------------------------
\* Properties

\* The vacuum handlers that are one call of _try_command, and all the vacuum
\* and switch commands.
VacTryOps ==
    {"async_start", "async_pause", "async_stop", "async_set_fan_speed",
     "async_return_to_base", "async_clean_spot", "async_locate",
     "async_send_command", "async_remote_control_start",
     "async_remote_control_stop", "async_remote_control_move",
     "async_remote_control_move_step", "async_goto", "async_clean_segment"}
VacCommandOps == VacTryOps \cup {"async_clean_zone"}
SwitchCommandOps == {"async_turn_on", "async_turn_off"}

ErrorLogged(l) == \E i \in 1..Len(l) : l[i].level = "error"
Logged(l, msg) == \E i \in 1..Len(l) : l[i] = LogRec("error", msg)

CommandOps == VacCommandOps \cup SwitchCommandOps

\* A command's device call failed with DeviceException in the last step.
CommandFailed == op \in CommandOps /\ inp.sdk = "DeviceException"

\* C1 as stated: a vacuum or switch command whose device call fails with the
\* SDK's communication failure (DeviceException) returns without raising, an
\* error is logged, and the vacuum's _state / the switch's is_on is the same
\* after the command as it was before it.
C1_FailedCommandKeepsState ==
    (CommandFailed /\ at = "returned")
        => /\ exc = None
           /\ ErrorLogged(log)
           /\ since.kind = "vacuum" => _state = since.v
           /\ since.kind = "switch" => _attr_is_on = since.v

\* A coordinator update of the vacuum runs in the step: the periodic one, or
\* the refresh a successful command awaited.
VacuumPolled ==
    \/ op' = "vacuum_coordinator_refresh"
    \/ op' \in VacCommandOps /\ inp'.sdk = "ok" /\ inp'.poll # NoPoll

\* C1 amended: such a command returns without raising, an error is logged, and
\* the command itself writes nothing to the stored state: neither the step
\* that begins it nor the one in which the failure arrives changes _state or
\* is_on, and while a command awaits its device call they change only by a
\* coordinator update (or, for the switch, another command's success), so the
\* stored state is the same after the command as before it when none ran.
C1_FailedCommandWritesNothing ==
    [][ /\ (op' \in CommandOps /\ inp'.sdk = "DeviceException")
            => /\ at' = "returned"
               /\ exc' = None
               /\ ErrorLogged(log')
               /\ _state' = _state /\ vacData' = vacData
               /\ _attr_is_on' = _attr_is_on
        /\ (op' \in CommandOps /\ at' = "job")
            => _state' = _state /\ vacData' = vacData /\ _attr_is_on' = _attr_is_on
        /\ (vacTasks # EmptyBag /\ _state' # _state) => VacuumPolled
        /\ (swTasks # EmptyBag /\ _attr_is_on' # _attr_is_on)
            => \/ op' = "switch_coordinator_refresh"
               \/ op' \in SwitchCommandOps /\ inp'.sdk = "ok" ]_vars

\* A failed command has returned; the stored state is the one it began with.
C1_Witness ==
    /\ CommandFailed /\ at = "returned"
    /\ \/ since.kind = "vacuum" /\ _state = since.v /\ _state = STATE_CLEANING
       \/ since.kind = "switch" /\ op = "async_turn_on" /\ _attr_is_on = since.v
                                /\ ~_attr_is_on

\* Every get_scanner call ends at line 65: NameError leaves it, no ubus call
\* was made and no scanner is handed out.
GetScannerRaises ==
    op = "get_scanner" => (exc = "NameError" /\ calls = <<>> /\ scanner = "none")

\* _handle_coordinator_update ran in the last step.
HandlerRan ==
    /\ vacPhase = "added"
    /\ \/ op = "async_added_to_hass"
       \/ op \in VacCommandOps \cup {"vacuum_coordinator_refresh"} /\ Notifies(inp.poll)

\* C4: when _handle_coordinator_update sees a vacuum_state that is none of the
\* six known states, it sets _state to None and logs an 'Unknown state' error.
C4_UnknownStateLogged ==
    (HandlerRan /\ vacData.vacuum_state \notin VacuumState)
        => (_state = None /\ Logged(log, "Unknown state: %s"))

\* str.split() without a separator: fields are the runs of non-whitespace.
RECURSIVE WsFieldsFrom(_, _)
WsFieldsFrom(s, cur) ==
    LET done == IF cur = <<>> THEN <<>> ELSE <<cur>> IN
    IF s = <<>> THEN done
    ELSE IF Head(s) \in Whitespace \cup {"\\x1c", "\\x1d", "\\x1e", "\\x1f"} THEN done \o WsFieldsFrom(Tail(s), <<>>)
    ELSE WsFieldsFrom(Tail(s), Append(cur, Head(s)))

WsFields(line) == WsFieldsFrom(line, <<>>)

\* The leases C5 describes: each line of five whitespace-separated fields is
\* kept under its uppercased second field, a later line replacing an earlier.
RECURSIVE WhitespaceLeases(_, _)
WhitespaceLeases(lines, leases) ==
    IF lines = <<>> THEN leases
    ELSE LET f == WsFields(Head(lines)) IN
         WhitespaceLeases(Tail(lines),
             IF Len(f) = 5 THEN DictUpdate(leases, Upper(f[2]) :> Lease(f)) ELSE leases)

\* C5: every lease line is split on whitespace and kept under its uppercased
\* hardware address, also when fields are separated by several spaces or by
\* tabs; a line with fewer or more than five fields does not abort the scan;
\* of two lines with the same address the later is kept.
C5_WhitespaceSplitLeases ==
    (op = "_get_dnsmasq_leases" /\ inp.ok)
        => /\ exc = None
           /\ LET want == WhitespaceLeases(SplitLines(inp.v), EmptyDict) IN
              \A k \in DOMAIN want :
                  k \in DOMAIN ret.leases /\ ret.leases[k] = want[k]

\* _handle_coordinator_update of the vacuum ran in the step (also under
\* async_added_to_hass), or the entity was constructed.
VacuumUpdated ==
    \/ op' \in {"async_setup_entry", "async_added_to_hass"}
    \/ op' \in VacCommandOps \cup {"vacuum_coordinator_refresh"} /\ Notifies(inp'.poll)

\* C6: is_on changes only by a coordinator update (to the polled value of the
\* switch's key) or by a turn_on / turn_off whose setter call succeeded (to
\* True / False); a coordinator update replaces an optimistic value by the
\* polled one; the vacuum's _state changes only by a coordinator update.
C6_StateChangedOnlyByUpdateOrCommand ==
    [][ /\ (_attr_is_on' # _attr_is_on)
            => \/ /\ op' \in {"XiaomiSwitch.__init__", "switch_coordinator_refresh"}
                  /\ _attr_is_on' = swData'[swKey']
               \/ op' = "async_turn_on" /\ inp'.sdk = "ok" /\ _attr_is_on' = TRUE
               \/ op' = "async_turn_off" /\ inp'.sdk = "ok" /\ _attr_is_on' = FALSE
        /\ (op' = "switch_coordinator_refresh" /\ swPhase = "added" /\ Notifies(inp'.poll))
            => _attr_is_on' = swData'[swKey']
        /\ (op' \in SwitchCommandOps /\ inp'.sdk = "ok")
            => _attr_is_on' = (op' = "async_turn_on")
        /\ (_state' # _state) => VacuumUpdated ]_vars

C6_Witness ==
    /\ op = "async_turn_on" /\ inp.sdk = "ok"
    /\ _attr_is_on /\ ~swData[swKey]

\* The display state C8 gives for each vacuum_state other than Error.
DisplayOf(vs) ==
    CASE vs = "Cleaning" -> "cleaning" [] vs = "Idle" -> "idle"
      [] vs = "Docked" -> "docked" [] vs = "Returning" -> "returning"
      [] vs = "Paused" -> "paused" [] OTHER -> None

\* C8: the reported state is error whenever the coordinator's data says Error,
\* whatever _state holds; otherwise it is _state, the mapping of the
\* vacuum_state the last _handle_coordinator_update saw, so it is not error
\* once a poll has delivered another vacuum_state.
C8_ReportedState ==
    vacPhase # "none"
        => /\ vacData.vacuum_state = "Error" => state = "error"
           /\ vacData.vacuum_state # "Error" => state = _state
           /\ (vacPhase = "added" /\ vacData.vacuum_state # "Error")
                => state = DisplayOf(vacData.vacuum_state)

C8_Witness ==
    /\ vacPhase = "added" /\ op = "vacuum_coordinator_refresh"
    /\ inp.poll.kind = "fresh" /\ vacData.vacuum_state = "Docked" /\ state = "docked"

\* C9: a command through _try_command calls the device first; when that call
\* succeeds it requests exactly one refresh, after the call, and returns True
\* once the refresh has ended; on DeviceException it requests none and returns
\* False; so True means the device accepted the command and False that the
\* device call failed.
C9_TryCommandOrder ==
    [][ op' \in VacTryOps
        => /\ (at' = "job")
                => /\ Len(calls') = 1 /\ calls'[1].f # "async_refresh"
                   /\ inp' = NoInp /\ try_result' = RetNone
                   /\ vacTasks' = AddTask(vacTasks, Task(op', "job"))
           /\ (at' = "refresh")
                => /\ BagIn(Task(op', "job"), vacTasks)
                   /\ vacTasks' = AddTask(DelTask(vacTasks, Task(op', "job")),
                                          Task(op', "refresh"))
                   /\ inp'.sdk = "ok" /\ inp'.poll = NoPoll
                   /\ calls' = <<RefreshCall>> /\ try_result' = RetNone
           /\ (at' = "returned" /\ inp'.sdk = "ok")
                => /\ BagIn(Task(op', "refresh"), vacTasks)
                   /\ vacTasks' = DelTask(vacTasks, Task(op', "refresh"))
                   /\ inp'.poll # NoPoll
                   /\ calls' = <<>> /\ try_result' = RetBool(TRUE)
           /\ (inp'.sdk = "DeviceException")
                => /\ BagIn(Task(op', "job"), vacTasks)
                   /\ vacTasks' = DelTask(vacTasks, Task(op', "job"))
                   /\ at' = "returned"
                   /\ calls' = <<>> /\ try_result' = RetBool(FALSE)
           /\ try_result' = RetBool(TRUE) => (inp'.sdk = "ok" /\ at' = "returned")
           /\ try_result' = RetBool(FALSE) => inp'.sdk = "DeviceException" ]_vars

C9_Witness ==
    /\ op = "async_start" /\ at = "returned" /\ try_result = RetBool(TRUE)
    /\ inp.poll.kind = "fresh" /\ _state = STATE_CLEANING

\* C10: async_set_fan_speed sends the preset's integer for a preset name,
\* else the integer fan_speed parses to, else logs an error and makes no
\* device call and no refresh; the displayed fan_speed is a preset name whose
\* integer is the polled fanspeed, and "Custom" when there is none.
C10_FanSpeed ==
    /\ (op = "async_set_fan_speed" /\ inp = NoInp)
        => LET p == _fan_speed_presets
               named == \E i \in 1..Len(p) : p[i].name = arg
           IN
           /\ named => /\ at = "job"
                       /\ \E i \in 1..Len(p) :
                             p[i].name = arg
                             /\ calls = <<Call("set_fan_speed", <<p[i].speed>>)>>
           /\ (~named /\ IntParses(arg))
                => at = "job" /\ calls = <<Call("set_fan_speed", <<IntValue(arg)>>)>>
           /\ (~named /\ ~IntParses(arg))
                => at = "returned" /\ calls = <<>> /\ ErrorLogged(log)
           /\ arg = <<"3", "8">> => calls[1].args = <<38>>
           /\ arg = <<"-", "5">> => calls[1].args = <<0 - 5>>
           /\ arg = <<" ", "6", "0", "\r">> => calls[1].args = <<60>>
           /\ arg = <<"\f", "+", "7", "\n">> => calls[1].args = <<7>>
           /\ arg = <<"1", "_", "0">> => calls[1].args = <<10>>
           /\ arg = <<"\\u0661", "\\u0662">> => calls[1].args = <<12>>
           /\ arg \in {<<"6", "x">>, <<"-">>, <<>>, <<"1", "_", "_", "0">>, <<"\\x1c", "7">>}
                => calls = <<>>
    /\ vacPhase # "none"
        => LET p == _fan_speed_presets IN
           IF \E i \in 1..Len(p) : p[i].speed = vacData.fanspeed
           THEN \E i \in 1..Len(p) :
                   p[i].name = fan_speed /\ p[i].speed = vacData.fanspeed
           ELSE fan_speed = Custom

C10_Witness ==
    /\ op = "async_set_fan_speed" /\ inp = NoInp /\ arg = N7
    /\ calls = <<Call("set_fan_speed", <<77>>)>>
    /\ fan_speed = Custom

====
